---- MODULE Spec2Model ----
(***************************************************************************)
(* Model of the feature-flag client of altipla-consulting/features-go:     *)
(* the cached snapshot with its staleness deadline, the singleflight       *)
(* fetch, the refresh scheduler, the evaluator IsEnabled and Close.        *)
(*                                                                         *)
(* Time is counted in units of 5 seconds, the greatest common divisor of   *)
(* the durations of client.go (10s, 15s, 1m, 5m, 30m).  The 3s request     *)
(* deadline is rounded up to one unit.  The zero time.Time is Zero.        *)
(*                                                                         *)
(* Every critical section of c.mu is one atomic step.  The clock may       *)
(* advance between any two steps of any goroutine.                         *)
(***************************************************************************)
EXTENDS Integers, Sequences, FiniteSets, TLC

(* ------------------------------ bounds --------------------------------- *)

\* Number of goroutines that call IsEnabled concurrently.
NumEvaluators == 2

\* The clock stops advancing at MaxTime units.
MaxTime == 3

\* Longest flag list of a snapshot drawn for the evaluation of IsEnabled.
MaxFlags == 2

\* Highest count a bucket of c.stats reaches.
MaxHits == 2

(* ------------------------- program constants --------------------------- *)

\* make(chan struct{}, 100): the model keeps the channel bounded and scales
\* its capacity down to 2.
AccessChCap == 2
\* make(chan accessEvent, 500): scaled down to 1.
StatsChCap == 1

\* 15 * time.Second
RefreshFast == 3
\* time.Minute
RefreshMid == 12
\* 5 * time.Minute, the interval of newClient and of an idle client
RefreshSlow == 60
\* sinceAccess < 5*time.Minute
AccessRecent == 60
\* sinceAccess < 30*time.Minute
AccessIdle == 360
\* staleDuration: 1 * time.Minute
DefaultStaleDuration == 12
\* staleDurationError: 5 * time.Minute
DefaultStaleDurationError == 60
\* maxFetchInterval: 10 * time.Second
DefaultMaxFetchInterval == 2
\* context.WithTimeout(c.ctx, 3*time.Second), rounded up to one unit
HttpTimeout == 1

\* time.NewTicker(1 * time.Minute) of backgroundStats
StatsInterval == 12
\* context.WithTimeout(ctx, 15*time.Second) of sendStats
PostTimeout == 3

\* The zero value of time.Time.
Zero == -1

\* No goroutine, no epoch, no outcome.
None == -1

\* An evaluator whose call has not returned.
NoRet == [valid |-> FALSE, flag |-> "", tenant |-> "", value |-> FALSE]

Ret(flag, tenant, value) ==
    [valid |-> TRUE, flag |-> flag, tenant |-> tenant, value |-> value]

(* ------------------------------ domains -------------------------------- *)

Evaluators == 1 .. NumEvaluators

\* The goroutine of backgroundFetch.
Sched == 0

Procs == Evaluators \cup {Sched}

FlagCodes == {"a", "b"}

\* The empty string is "no tenant supplied" (flagOptions.tenant unset).
TenantArgs == {"", "t1", "t2"}

flagTenant(code, enabled) == [Code |-> code, Enabled |-> enabled]

flagReply(code, enabled, tenants) ==
    [Code |-> code, Enabled |-> enabled, Tenants |-> tenants]

\* Tenant override lists of the drawn snapshots: none, one, two, and a
\* duplicated tenant code.
TenantLists ==
    { <<>>,
      <<flagTenant("t1", TRUE)>>,
      <<flagTenant("t1", FALSE)>>,
      <<flagTenant("t2", FALSE), flagTenant("t1", TRUE)>>,
      <<flagTenant("t1", FALSE), flagTenant("t1", TRUE)>> }

FlagReplies ==
    { flagReply(c, e, t) : c \in FlagCodes, e \in BOOLEAN, t \in TenantLists }

SeqsUpTo(S, n) == UNION { [1 .. k -> S] : k \in 0 .. n }

\* Snapshots the evaluation is checked on.
Snapshots == SeqsUpTo(FlagReplies, MaxFlags)

\* Bodies the evaluation endpoint answers with in the fetch scenarios.
Responses ==
    { <<flagReply("a", TRUE, <<>>)>>,
      <<flagReply("b", TRUE, <<flagTenant("t1", TRUE)>>)>> }

\* How long the client of the stats scenarios was left alone after
\* newClient: 4 minutes 50 seconds, both tickers fire 10 seconds from now.
IdleTimes == {58}

\* staleDuration as set by newClient and as overridden by the tests.
StaleDurations == {0, DefaultStaleDuration}

VARIABLES
    now,                \* the clock
    closed,             \* c.ctx is cancelled
    closePc,            \* the caller of Close
    wg,                 \* c.wg counter
    local,              \* c.local
    staleDuration, staleDurationError, maxFetchInterval,
    stale, flags, lastRefresh,          \* protected by c.mu
    lastAccess, refreshInterval,        \* owned by backgroundFetch
    tickerC, nextTick,                  \* c.ticker: buffered tick, next firing
    accessCh,           \* number of notifications queued in c.accessCh
    statsCh, statsCap,  \* c.statsCh and its capacity
    sfLeader, sfWaiters,\* c.sf: the goroutine running "fetch", its waiters
    httpDeadline,       \* deadline of the request in flight
    pc,                 \* position of each goroutine
    ret,                \* what the last IsEnabled call of an evaluator returned
    seen,               \* observation: what the staleness check of the
                        \* evaluator's call found ("stale" or "fresh"), until
                        \* c.stale is written or the call passes fetch()
    lastOutcome,        \* observation: how the last request ended
    lastBody,           \* observation: the last body that was decoded
    okAt,               \* observation: instant the last request succeeded
    endedAt,            \* observation: instant the last request ended
    muWriter, muReaders,\* c.mu: the goroutine inside Lock, those inside RLock
    muBody,             \* the decoded body a writer is about to store
    statsPc,            \* position of the goroutine of backgroundStats
    stats,              \* c.stats: flag -> minute bucket -> counters
    statsTickerC, statsNextTick,        \* the ticker of backgroundStats
    postDeadline,       \* deadline of the stats upload in flight
    configured,         \* DefaultClient is not nil
    requests,           \* counter of the test transport, None without one
    resets,             \* observation: calls of c.ticker.Reset
    lastUpload          \* the transport of the stats endpoint: whether it
                        \* is the recording one of the tests, and the body
                        \* of the last upload it accepted

vars == << now, closed, closePc, wg, local, staleDuration, staleDurationError,
           maxFetchInterval, stale, flags, lastRefresh, lastAccess,
           refreshInterval, tickerC, nextTick, accessCh, statsCh, statsCap,
           sfLeader, sfWaiters, httpDeadline, pc, ret, seen, lastOutcome,
           lastBody, okAt, endedAt, muWriter, muReaders, muBody, statsPc,
           stats, statsTickerC, statsNextTick, postDeadline, configured,
           requests, resets, lastUpload >>

configVars == << local, staleDuration, staleDurationError, maxFetchInterval, statsCap >>
cacheVars == << stale, flags, lastRefresh >>
schedVars == << lastAccess, refreshInterval, tickerC, nextTick >>
closeVars == << closed, closePc >>
obsVars == << lastOutcome, lastBody, okAt, endedAt >>
muVars == << muWriter, muReaders, muBody >>
statsTaskVars == << statsPc, stats, statsTickerC, statsNextTick, postDeadline >>
pkgVars == << configured >>
netVars == << requests, resets, lastUpload >>

(* --------------------------- pure functions ---------------------------- *)

\* time.Since(t) for a set t.
Since(t) == now - t

\* Variant of isStale with the comparison turned round.
isStaleInverted == stale = Zero \/ Since(stale) <= 0

\* isStale: c.stale.IsZero() || time.Since(c.stale) >= 0
isStale == stale = Zero \/ Since(stale) >= 0

\* The rate floor of safeFetch:
\* !lastFetch.IsZero() && time.Since(lastFetch) < c.maxFetchInterval
skipFetch == lastRefresh # Zero /\ Since(lastRefresh) < maxFetchInterval

\* Variant of searchTenant that does not compare the tenant code.
searchTenantAny(tenants, tenant) ==
    IF tenants = <<>> THEN FALSE ELSE Head(tenants).Enabled

\* The inner loop of IsEnabled over f.Tenants: the first override whose
\* code is the tenant decides, none means false.
RECURSIVE searchTenant(_, _)
searchTenant(tenants, tenant) ==
    IF tenants = <<>> THEN FALSE
    ELSE IF Head(tenants).Code = tenant THEN Head(tenants).Enabled
    ELSE searchTenant(Tail(tenants), tenant)

\* Variant of evalFlag without the check of a disabled flag.
evalFlagNoKillSwitch(f, tenant) ==
    IF Len(f.Tenants) = 0 THEN f.Enabled
    ELSE searchTenant(f.Tenants, tenant)

\* Variant of evalFlag without the case of a flag that has no overrides.
evalFlagNoGlobal(f, tenant) ==
    IF ~f.Enabled THEN FALSE
    ELSE searchTenant(f.Tenants, tenant)

\* What IsEnabled answers for one flag entry whose code matched.
evalFlag(f, tenant) ==
    IF Len(f.Tenants) = 0 THEN f.Enabled
    ELSE IF ~f.Enabled THEN FALSE
    ELSE searchTenant(f.Tenants, tenant)

\* Variant of evalFlags that does not compare the flag code.
evalFlagsAny(fl, flag, tenant) ==
    IF fl = <<>> THEN FALSE ELSE evalFlag(Head(fl), tenant)

\* The outer loop of IsEnabled over c.flags: the first entry with the code
\* decides, none means false.
RECURSIVE evalFlags(_, _, _)
evalFlags(fl, flag, tenant) ==
    IF fl = <<>> THEN FALSE
    ELSE IF Head(fl).Code # flag THEN evalFlags(Tail(fl), flag, tenant)
    ELSE evalFlag(Head(fl), tenant)

\* Variant of trackAccess that queues the event whatever the length.
trackAccessUnbounded(ch, flag, enabled) ==
    Append(ch, [flag |-> flag, enabled |-> enabled])

\* trackAccess: a non-blocking send, the event is dropped when the channel
\* is full.
trackAccess(ch, flag, enabled) ==
    IF Len(ch) < statsCap
    THEN Append(ch, [flag |-> flag, enabled |-> enabled])
    ELSE ch

\* Variant of intervalFor whose thresholds belong to the shorter interval.
intervalForInclusive(sinceAccess) ==
    IF sinceAccess <= AccessRecent THEN RefreshFast
    ELSE IF sinceAccess <= AccessIdle THEN RefreshMid
    ELSE RefreshSlow

\* The switch of adjustInterval.
intervalFor(sinceAccess) ==
    IF sinceAccess < AccessRecent THEN RefreshFast
    ELSE IF sinceAccess < AccessIdle THEN RefreshMid
    ELSE RefreshSlow

\* time.Since of a lastAccess that may be the zero time (decades ago).
sinceAccessOf(la) == IF la = Zero THEN AccessIdle ELSE now - la

\* Variant of afterFetch in which IsEnabled gives up after fetch().
afterFetchAbort(p) == IF p = Sched THEN "adjust" ELSE "idle"

\* Where a goroutine continues when fetch() returns.
afterFetch(p) == IF p = Sched THEN "adjust" ELSE "access"

(* ----------------------------- newClient -------------------------------- *)

\* make(map[string]*flagStats)
NoStats == [f \in {} |-> [b \in {} |-> 0]]

\* http.DefaultClient, and the recording transport of the stats tests before
\* any upload (fakeStats.last is nil).
NoUpload == [fake |-> FALSE, last |-> NoStats, hits |-> 0]
FakeUpload == [fake |-> TRUE, last |-> NoStats, hits |-> 0]

\* Variant of tasksStarted without the wg.Add(1) of backgroundStats.
tasksStartedOne(disableStats) == 1

\* The goroutines newClient starts and adds to c.wg.
tasksStarted(disableStats) == IF disableStats THEN 1 ELSE 2

\* What newClient builds whatever its options: nothing was ever fetched,
\* backgroundFetch is running on a ticker of c.refreshInterval.
InitBase ==
    /\ now = 0
    /\ closed = FALSE
    /\ closePc = "idle"
    /\ local \in BOOLEAN
    /\ staleDuration \in StaleDurations
    /\ staleDurationError = DefaultStaleDurationError
    /\ maxFetchInterval = DefaultMaxFetchInterval
    /\ stale = Zero
    /\ flags = <<>>
    /\ lastRefresh = Zero
    /\ lastAccess = Zero
    /\ refreshInterval = RefreshSlow
    /\ tickerC = FALSE
    /\ accessCh = 0
    /\ statsCh = <<>>
    /\ sfLeader = None
    /\ sfWaiters = {}
    /\ httpDeadline = Zero
    /\ pc = [p \in Procs |-> IF p = Sched THEN "select" ELSE "idle"]
    /\ ret = [e \in Evaluators |-> NoRet]
    /\ seen = [e \in Evaluators |-> "none"]
    /\ lastOutcome = "none"
    /\ lastBody = <<>>
    /\ okAt = Zero
    /\ endedAt = Zero
    /\ muWriter = None
    /\ muReaders = {}
    /\ muBody = <<>>
    /\ stats = NoStats
    /\ statsTickerC = FALSE
    /\ postDeadline = Zero
    /\ resets = 0

\* newClient with the stats collector disabled, as the fetch tests build it
\* (configureOptions{disableStats: true}).
Init ==
    /\ InitBase
    /\ statsCap = StatsChCap
    /\ requests = None
    /\ lastUpload = NoUpload
    /\ configured = TRUE
    /\ wg = tasksStarted(TRUE)
    /\ nextTick = RefreshSlow
    /\ statsPc = "off"
    /\ statsNextTick = Zero

\* newClient with the stats collector, seen right after construction or
\* after the client was left alone for a while: both tickers are that much
\* closer to firing.
InitStats ==
    /\ InitBase
    /\ statsCap = StatsChCap
    /\ requests = None
    /\ lastUpload = NoUpload
    /\ configured = TRUE
    /\ staleDuration = DefaultStaleDuration
    /\ wg = tasksStarted(FALSE)
    /\ statsPc = "select"
    /\ \E idle \in IdleTimes :
           /\ nextTick = RefreshSlow - idle
           /\ statsNextTick = StatsInterval - (idle % StatsInterval)

(* ------------------------------- clock --------------------------------- *)

\* One unit of time passes.  A request in flight ends by its deadline.  A
\* running ticker whose instant is reached puts a tick in its channel of
\* capacity one (a tick nobody took is overwritten) and rearms.
TickTo(limit) ==
    /\ now < limit
    /\ (sfLeader # None => now + 1 <= httpDeadline)
    /\ (statsPc \in {"post", "final"} => now + 1 <= postDeadline)
    /\ now' = now + 1
    /\ IF statsPc \notin {"off", "exited"} /\ now + 1 = statsNextTick
       THEN /\ statsTickerC' = TRUE
            /\ statsNextTick' = statsNextTick + StatsInterval
       ELSE UNCHANGED << statsTickerC, statsNextTick >>
    /\ UNCHANGED << statsPc, stats, postDeadline >>
    /\ IF pc[Sched] # "exited" /\ now + 1 = nextTick
       THEN /\ tickerC' = TRUE
            /\ nextTick' = nextTick + refreshInterval
       ELSE UNCHANGED << tickerC, nextTick >>
    /\ UNCHANGED << closeVars, wg, configVars, cacheVars, lastAccess,
                    refreshInterval, accessCh, statsCh, sfLeader, sfWaiters,
                    httpDeadline, pc, ret, seen, obsVars >>
    /\ UNCHANGED << muVars, pkgVars, netVars >>

\* Time is followed up to MaxTime.
Tick == TickTo(MaxTime)

(* ------------------------------- fetch --------------------------------- *)

\* RoundTrip of the transport the fetch tests install counts the request;
\* http.DefaultClient, which newClient installs, keeps no count.
countRequest(n) == IF n = None THEN None ELSE n + 1

\* Variant of sfInFlight that never finds the running call.
sfNeverInFlight == FALSE

\* singleflight: a call of key "fetch" is running.
sfInFlight == sfLeader # None

\* Variant of storeStaleError that uses the freshness window.
storeStaleErrorShort == now + staleDuration

\* What fetch stores in c.stale after safeFetch returned an error.
storeStaleError == now + staleDurationError

\* Variant of ctxDone for a request built on context.Background().
ctxNeverDone == FALSE

\* c.ctx is cancelled: a request built on it (context.WithTimeout(c.ctx, ..))
\* is refused by the transport of http.DefaultClient before anything is
\* sent, and c.client.Do returns the context's error at once.
ctxDone == closed

\* fetch() by a goroutine that finds no call in flight: it runs the function
\* itself.  safeFetch returns nil at once under the rate floor, and fetch
\* returns.  Otherwise the request is built: on a cancelled context Do fails
\* at once and fetch handles the error; on a live one the request is sent.
FetchStart(p) ==
    /\ pc[p] = "fetch"
    /\ ~sfInFlight
    /\ IF skipFetch
       THEN /\ pc' = [pc EXCEPT ![p] = afterFetch(p)]
            /\ UNCHANGED << sfLeader, wg, httpDeadline, stale, seen, obsVars,
                            requests >>
       ELSE IF ctxDone
       THEN /\ pc' = [pc EXCEPT ![p] = afterFetch(p)]
            /\ stale' = storeStaleError
            /\ seen' = [e \in Evaluators |-> "none"]
            /\ lastOutcome' = "fail"
            /\ endedAt' = now
            /\ UNCHANGED << sfLeader, wg, httpDeadline, lastBody, okAt,
                            requests >>
       ELSE /\ sfLeader' = p
            /\ wg' = wg + 1
            /\ httpDeadline' = now + HttpTimeout
            /\ requests' = countRequest(requests)
            /\ pc' = [pc EXCEPT ![p] = "http"]
            /\ UNCHANGED << stale, seen, obsVars >>
    /\ UNCHANGED << now, closeVars, configVars, flags, lastRefresh, schedVars,
                    accessCh, statsCh, sfWaiters, ret >>
    /\ UNCHANGED << muVars, statsTaskVars, pkgVars, resets, lastUpload >>

\* fetch() by a goroutine that finds the call in flight: it waits for it.
FetchJoin(p) ==
    /\ pc[p] = "fetch"
    /\ sfInFlight
    /\ sfWaiters' = sfWaiters \cup {p}
    /\ pc' = [pc EXCEPT ![p] = "sfWait"]
    /\ UNCHANGED << now, closeVars, wg, configVars, cacheVars, schedVars,
                    accessCh, statsCh, sfLeader, httpDeadline, ret,
                    seen, obsVars >>
    /\ UNCHANGED << muVars, statsTaskVars, pkgVars, netVars >>

\* The call ends: the key is removed, the leader and every waiter return
\* from fetch().
sfRelease(p) ==
    /\ sfLeader' = None
    /\ sfWaiters' = {}
    /\ wg' = wg - 1
    /\ httpDeadline' = Zero
    /\ pc' = [q \in Procs |->
                IF q = p \/ q \in sfWaiters THEN afterFetch(q) ELSE pc[q]]

\* Variant of storeFlags that appends to the list instead of replacing it.
storeFlagsAppend(fetched) == flags \o fetched

\* What safeFetch stores under c.mu.Lock after a decoded 200 response.
storeFlags(fetched) == fetched

\* Variant of storeStale without the freshness window.
storeStaleAtOnce == now

storeStale == now + staleDuration

storeLastRefresh == now

\* The response is 200 with a body that decodes to `fetched`.
FetchOk(p, fetched) ==
    /\ pc[p] = "http"
    /\ ~closed
    /\ flags' = storeFlags(fetched)
    /\ stale' = storeStale
    /\ lastRefresh' = storeLastRefresh
    /\ sfRelease(p)
    /\ seen' = [e \in Evaluators |-> "none"]
    /\ lastOutcome' = "ok"
    /\ lastBody' = fetched
    /\ okAt' = now
    /\ endedAt' = now
    /\ UNCHANGED << now, closeVars, configVars, schedVars, accessCh, statsCh,
                    ret >>
    /\ UNCHANGED << muVars, statsTaskVars, pkgVars, netVars >>

\* Variant of FetchFail that records the attempt in c.lastRefresh.
FetchFailRecorded(p) ==
    /\ pc[p] = "http"
    /\ stale' = storeStaleError
    /\ lastRefresh' = now
    /\ sfRelease(p)
    /\ seen' = [e \in Evaluators |-> "none"]
    /\ lastOutcome' = "fail"
    /\ endedAt' = now
    /\ UNCHANGED << lastBody, okAt >>
    /\ UNCHANGED << now, closeVars, configVars, flags, schedVars,
                    accessCh, statsCh, ret >>
    /\ UNCHANGED << muVars, statsTaskVars, pkgVars, netVars >>

\* The request fails: transport error, deadline or cancelled context, a
\* status other than 200, or a body that does not decode.
FetchFail(p) ==
    /\ pc[p] = "http"
    /\ stale' = storeStaleError
    /\ sfRelease(p)
    /\ seen' = [e \in Evaluators |-> "none"]
    /\ lastOutcome' = "fail"
    /\ endedAt' = now
    /\ UNCHANGED << lastBody, okAt >>
    /\ UNCHANGED << now, closeVars, configVars, flags, lastRefresh, schedVars,
                    accessCh, statsCh, ret >>
    /\ UNCHANGED << muVars, statsTaskVars, pkgVars, netVars >>

(* ----------------------------- IsEnabled ------------------------------- *)

\* Variant of inLocalMode for an IsEnabled without the check of c.local.
inLocalModeNever == FALSE

\* if c.local
inLocalMode == local

\* IsEnabled in local mode returns true at once.
CallLocal(e, flag, tenant) ==
    /\ pc[e] = "idle"
    /\ inLocalMode
    /\ ret' = [ret EXCEPT ![e] = Ret(flag, tenant, TRUE)]
    /\ UNCHANGED << now, closeVars, wg, configVars, cacheVars, schedVars,
                    accessCh, statsCh, sfLeader, sfWaiters, httpDeadline,
                    pc, seen, obsVars >>
    /\ UNCHANGED << muVars, statsTaskVars, pkgVars, netVars >>

\* IsEnabled is entered: the staleness check under c.mu.RLock decides
\* whether fetch() is called first.
Call(e) ==
    /\ pc[e] = "idle"
    /\ ~inLocalMode
    /\ ret' = [ret EXCEPT ![e] = NoRet]
    /\ IF isStale
       THEN /\ pc' = [pc EXCEPT ![e] = "fetch"]
            /\ seen' = [seen EXCEPT ![e] = "stale"]
       ELSE /\ pc' = [pc EXCEPT ![e] = "access"]
            /\ seen' = [seen EXCEPT ![e] = "fresh"]
    /\ UNCHANGED << now, closeVars, wg, configVars, cacheVars, schedVars,
                    accessCh, statsCh, sfLeader, sfWaiters, httpDeadline,
                    obsVars >>
    /\ UNCHANGED << muVars, statsTaskVars, pkgVars, netVars >>

\* Variant of canSendAccess for a send that never waits for room.
canSendAccessAlways == TRUE

\* A send on c.accessCh proceeds when the buffer has room.
canSendAccess == accessCh < AccessChCap

\* c.accessCh <- struct{}{}: blocks while the channel is full.
Access(e) ==
    /\ pc[e] = "access"
    /\ canSendAccess
    /\ accessCh' = accessCh + 1
    /\ pc' = [pc EXCEPT ![e] = "eval"]
    /\ seen' = [seen EXCEPT ![e] = "none"]
    /\ UNCHANGED << now, closeVars, wg, configVars, cacheVars, schedVars,
                    statsCh, sfLeader, sfWaiters, httpDeadline, ret, obsVars >>
    /\ UNCHANGED << muVars, statsTaskVars, pkgVars, netVars >>

\* The lookup under c.mu.RLock, trackAccess of the result, and the return.
Evaluate(e, flag, tenant) ==
    /\ pc[e] = "eval"
    /\ LET value == evalFlags(flags, flag, tenant) IN
         /\ statsCh' = trackAccess(statsCh, flag, value)
         /\ ret' = [ret EXCEPT ![e] = Ret(flag, tenant, value)]
    /\ pc' = [pc EXCEPT ![e] = "idle"]
    /\ UNCHANGED << now, closeVars, wg, configVars, cacheVars, schedVars,
                    accessCh, sfLeader, sfWaiters, httpDeadline, seen, obsVars >>
    /\ UNCHANGED << muVars, statsTaskVars, pkgVars, netVars >>

(* --------------------------- backgroundFetch --------------------------- *)

\* Variant of adjustInterval that never resets the ticker.
adjustIntervalNoReset(la) ==
    LET new == intervalFor(sinceAccessOf(la)) IN
      /\ refreshInterval' = new
      /\ UNCHANGED << nextTick, resets >>

\* Variant of adjustInterval that resets the ticker whenever it is called
\* for an access notification.
adjustIntervalResetOnAccess(la) ==
    LET new == intervalFor(sinceAccessOf(la)) IN
      /\ refreshInterval' = new
      /\ IF new # refreshInterval \/ la = now
         THEN /\ nextTick' = now + new
              /\ resets' = resets + 1
         ELSE UNCHANGED << nextTick, resets >>

\* adjustInterval: the interval for the time since the last access, and
\* c.ticker.Reset only when the interval changed.
\* Variant of adjustInterval that resets the ticker on every call.
adjustIntervalAlwaysReset(la) ==
    LET new == intervalFor(sinceAccessOf(la)) IN
      /\ refreshInterval' = new
      /\ nextTick' = now + new
      /\ resets' = resets + 1

adjustInterval(la) ==
    LET new == intervalFor(sinceAccessOf(la)) IN
      /\ refreshInterval' = new
      /\ IF new # refreshInterval
         THEN /\ nextTick' = now + new
              /\ resets' = resets + 1
         ELSE UNCHANGED << nextTick, resets >>

\* case <-c.ticker.C: the tick is taken and fetch() is called.
SchedTick ==
    /\ pc[Sched] = "select"
    /\ tickerC
    /\ tickerC' = FALSE
    /\ pc' = [pc EXCEPT ![Sched] = "fetch"]
    /\ UNCHANGED << now, closeVars, wg, configVars, cacheVars, lastAccess,
                    refreshInterval, nextTick, accessCh, statsCh, sfLeader,
                    sfWaiters, httpDeadline, ret, seen, obsVars >>
    /\ UNCHANGED << muVars, statsTaskVars, pkgVars, netVars >>

\* ... and after fetch() returned, adjustInterval.
SchedAdjust ==
    /\ pc[Sched] = "adjust"
    /\ adjustInterval(lastAccess)
    /\ pc' = [pc EXCEPT ![Sched] = "select"]
    /\ UNCHANGED << now, closeVars, wg, configVars, cacheVars, lastAccess,
                    tickerC, accessCh, statsCh, sfLeader, sfWaiters,
                    httpDeadline, ret, seen, obsVars >>
    /\ UNCHANGED << muVars, statsTaskVars, pkgVars, requests, lastUpload >>

\* case <-c.accessCh: lastAccess is now, then adjustInterval.
SchedAccess ==
    /\ pc[Sched] = "select"
    /\ accessCh > 0
    /\ accessCh' = accessCh - 1
    /\ lastAccess' = now
    /\ adjustInterval(now)
    /\ UNCHANGED << now, closeVars, wg, configVars, cacheVars, tickerC,
                    statsCh, sfLeader, sfWaiters, httpDeadline, pc,
                    ret, seen, obsVars >>
    /\ UNCHANGED << muVars, statsTaskVars, pkgVars, requests, lastUpload >>

\* case <-c.ctx.Done(): the goroutine returns (ticker.Stop, wg.Done).
SchedStop ==
    /\ pc[Sched] = "select"
    /\ closed
    /\ pc' = [pc EXCEPT ![Sched] = "exited"]
    /\ wg' = wg - 1
    /\ UNCHANGED << now, closeVars, configVars, cacheVars, schedVars, accessCh,
                    statsCh, sfLeader, sfWaiters, httpDeadline, ret,
                    seen, obsVars >>
    /\ UNCHANGED << muVars, statsTaskVars, pkgVars, netVars >>

(* --------------------------- backgroundStats --------------------------- *)

\* Length of the window after which a failed flush drops a bucket: 20 hours.
PruneAge == 14400

\* time.Now().Truncate(time.Minute)
minuteOf(t) == (t \div StatsInterval) * StatsInterval

NoBuckets == [b \in {} |-> [enabledHits |-> 0, totalHits |-> 0]]

\* Variant of countEvent that counts every event as an enabled one.
countEventAllEnabled(st, event, key) ==
    LET fs == IF event.flag \in DOMAIN st THEN st[event.flag] ELSE NoBuckets
        b  == IF key \in DOMAIN fs THEN fs[key]
              ELSE [enabledHits |-> 0, totalHits |-> 0]
        nb == [enabledHits |-> b.enabledHits + 1,
               totalHits   |-> b.totalHits + 1]
        nfs == [k \in DOMAIN fs \cup {key} |-> IF k = key THEN nb ELSE fs[k]]
    IN  [f \in DOMAIN st \cup {event.flag} |->
            IF f = event.flag THEN nfs ELSE st[f]]

\* The event case of backgroundStats: the bucket of the current minute of
\* the flag is created when missing and counts the event.
countEvent(st, event, key) ==
    LET fs == IF event.flag \in DOMAIN st THEN st[event.flag] ELSE NoBuckets
        b  == IF key \in DOMAIN fs THEN fs[key]
              ELSE [enabledHits |-> 0, totalHits |-> 0]
        nb == [enabledHits |-> b.enabledHits + (IF event.enabled THEN 1 ELSE 0),
               totalHits   |-> b.totalHits + 1]
        nfs == [k \in DOMAIN fs \cup {key} |-> IF k = key THEN nb ELSE fs[k]]
    IN  [f \in DOMAIN st \cup {event.flag} |->
            IF f = event.flag THEN nfs ELSE st[f]]

\* totalHits of the bucket the next event of the channel goes to.
hitsOf(st, flag, key) ==
    IF flag \in DOMAIN st /\ key \in DOMAIN st[flag]
    THEN st[flag][key].totalHits ELSE 0

\* Variant of pruneStats that keeps every bucket.
pruneStatsNone(st) == st

\* Variant of pruneStats that leaves the flags without a bucket in place.
pruneStatsKeepFlags(st) ==
    [f \in DOMAIN st |->
        [k \in { j \in DOMAIN st[f] : ~(j < now - PruneAge) } |-> st[f][k]]]

\* The cleanup after a failed flush: buckets older than 20 hours go, and
\* flags left without a bucket go.
pruneStats(st) ==
    LET kept(f) == { k \in DOMAIN st[f] : ~(k < now - PruneAge) }
    IN  [f \in { g \in DOMAIN st : kept(g) # {} } |->
            [k \in kept(f) |-> st[f][k]]]

\* The buckets a mapping holds, as (flag, minute) pairs: the entries of the
\* body of an upload.
bucketsOf(st) == UNION { {f} \X DOMAIN st[f] : f \in DOMAIN st }

\* The sum of TotalHits over entries of a body.
RECURSIVE sumHits(_, _)
sumHits(st, bs) ==
    IF bs = {} THEN 0
    ELSE LET b == CHOOSE x \in bs : TRUE
         IN  st[b[1]][b[2]].totalHits + sumHits(st, bs \ {b})

totalOf(st) == sumHits(st, bucketsOf(st))

\* The transport of the stats tests keeps the body of the last upload it
\* answered with 200, and is followed for the hits it accepted in all; the
\* body lists every bucket of c.stats.
recordUpload(tr, st) ==
    IF tr.fake
    THEN [tr EXCEPT !.last = st, !.hits = @ + totalOf(st)]
    ELSE tr

\* case <-t.C: sendStats(c.ctx).  Nothing is sent in local mode or with an
\* empty mapping; on a cancelled context Do fails at once and the cleanup
\* runs; otherwise the upload is in flight.
StatsTick ==
    /\ statsPc = "select"
    /\ statsTickerC
    /\ statsTickerC' = FALSE
    /\ IF local \/ stats = NoStats
       THEN UNCHANGED << statsPc, stats, postDeadline >>
       ELSE IF ctxDone
       THEN /\ stats' = pruneStats(stats)
            /\ UNCHANGED << statsPc, postDeadline >>
       ELSE /\ statsPc' = "post"
            /\ postDeadline' = now + PostTimeout
            /\ UNCHANGED stats
    /\ UNCHANGED << now, closeVars, wg, configVars, cacheVars, schedVars,
                    accessCh, statsCh, sfLeader, sfWaiters, httpDeadline,
                    pc, ret, seen, obsVars, muVars, statsNextTick, pkgVars, netVars >>

\* Variant of StatsPostOk that keeps the mapping after the upload.
StatsPostOkKeep ==
    /\ statsPc = "post"
    /\ ~ctxDone
    /\ lastUpload' = recordUpload(lastUpload, stats)
    /\ statsPc' = "select"
    /\ postDeadline' = Zero
    /\ UNCHANGED << now, closeVars, wg, configVars, cacheVars, schedVars,
                    accessCh, statsCh, sfLeader, sfWaiters, httpDeadline,
                    pc, ret, seen, obsVars, muVars, stats, statsTickerC,
                    statsNextTick, pkgVars, requests, resets >>

\* The upload is answered 200 or 204: c.stats is a new empty mapping.
StatsPostOk ==
    /\ statsPc = "post"
    /\ ~ctxDone
    /\ lastUpload' = recordUpload(lastUpload, stats)
    /\ stats' = NoStats
    /\ statsPc' = "select"
    /\ postDeadline' = Zero
    /\ UNCHANGED << now, closeVars, wg, configVars, cacheVars, schedVars,
                    accessCh, statsCh, sfLeader, sfWaiters, httpDeadline,
                    pc, ret, seen, obsVars, muVars, statsTickerC,
                    statsNextTick, pkgVars, requests, resets >>

\* Variant of StatsPostFail that empties the mapping all the same.
StatsPostFailClear ==
    /\ statsPc = "post"
    /\ stats' = NoStats
    /\ statsPc' = "select"
    /\ postDeadline' = Zero
    /\ UNCHANGED << now, closeVars, wg, configVars, cacheVars, schedVars,
                    accessCh, statsCh, sfLeader, sfWaiters, httpDeadline,
                    pc, ret, seen, obsVars, muVars, statsTickerC,
                    statsNextTick, pkgVars, netVars >>

\* The upload fails: transport error, deadline or cancelled context, or
\* another status.  The cleanup runs.
StatsPostFail ==
    /\ statsPc = "post"
    /\ stats' = pruneStats(stats)
    /\ statsPc' = "select"
    /\ postDeadline' = Zero
    /\ UNCHANGED << now, closeVars, wg, configVars, cacheVars, schedVars,
                    accessCh, statsCh, sfLeader, sfWaiters, httpDeadline,
                    pc, ret, seen, obsVars, muVars, statsTickerC,
                    statsNextTick, pkgVars, netVars >>

\* case event := <-c.statsCh.  The counter of a bucket stops at the limit.
StatsEventTo(limit) ==
    /\ statsPc = "select"
    /\ statsCh # <<>>
    /\ hitsOf(stats, Head(statsCh).flag, minuteOf(now)) < limit
    /\ stats' = countEvent(stats, Head(statsCh), minuteOf(now))
    /\ statsCh' = Tail(statsCh)
    /\ UNCHANGED << now, closeVars, wg, configVars, cacheVars, schedVars,
                    accessCh, sfLeader, sfWaiters, httpDeadline, pc, ret,
                    seen, obsVars, muVars, statsPc, statsTickerC,
                    statsNextTick, postDeadline, pkgVars, netVars >>

\* Buckets are followed up to MaxHits events.
StatsEvent == StatsEventTo(MaxHits)

\* Variant of StatsStop that returns without the last sendStats.
StatsStopNoFlush ==
    /\ statsPc = "select"
    /\ ctxDone
    /\ statsPc' = "exited"
    /\ wg' = wg - 1
    /\ UNCHANGED postDeadline
    /\ UNCHANGED << now, closeVars, configVars, cacheVars, schedVars,
                    accessCh, statsCh, sfLeader, sfWaiters, httpDeadline,
                    pc, ret, seen, obsVars, muVars, stats, statsTickerC,
                    statsNextTick, pkgVars, netVars >>

\* case <-c.ctx.Done(): sendStats(context.Background()).  With nothing to
\* send the goroutine returns (wg.Done); otherwise the last upload is in
\* flight, on a context of its own.
StatsStop ==
    /\ statsPc = "select"
    /\ ctxDone
    /\ IF local \/ stats = NoStats
       THEN /\ statsPc' = "exited"
            /\ wg' = wg - 1
            /\ UNCHANGED postDeadline
       ELSE /\ statsPc' = "final"
            /\ postDeadline' = now + PostTimeout
            /\ UNCHANGED wg
    /\ UNCHANGED << now, closeVars, configVars, cacheVars, schedVars,
                    accessCh, statsCh, sfLeader, sfWaiters, httpDeadline,
                    pc, ret, seen, obsVars, muVars, stats, statsTickerC,
                    statsNextTick, pkgVars, netVars >>

\* The last upload is answered 200 or 204, and the goroutine returns.
StatsFinalOk ==
    /\ statsPc = "final"
    /\ lastUpload' = recordUpload(lastUpload, stats)
    /\ stats' = NoStats
    /\ statsPc' = "exited"
    /\ postDeadline' = Zero
    /\ wg' = wg - 1
    /\ UNCHANGED << now, closeVars, configVars, cacheVars, schedVars,
                    accessCh, statsCh, sfLeader, sfWaiters, httpDeadline,
                    pc, ret, seen, obsVars, muVars, statsTickerC,
                    statsNextTick, pkgVars, requests, resets >>

\* The last upload fails, and the goroutine returns.
StatsFinalFail ==
    /\ statsPc = "final"
    /\ statsPc' = "exited"
    /\ postDeadline' = Zero
    /\ wg' = wg - 1
    /\ UNCHANGED << now, closeVars, configVars, cacheVars, schedVars,
                    accessCh, statsCh, sfLeader, sfWaiters, httpDeadline,
                    pc, ret, seen, obsVars, muVars, stats, statsTickerC,
                    statsNextTick, pkgVars, netVars >>

(* -------------------------------- Close -------------------------------- *)

\* Close: c.cancel() ...
CloseCancel ==
    /\ closePc = "idle"
    /\ closed' = TRUE
    /\ closePc' = "wait"
    /\ UNCHANGED << now, wg, configVars, cacheVars, schedVars, accessCh,
                    statsCh, sfLeader, sfWaiters, httpDeadline, pc,
                    ret, seen, obsVars >>
    /\ UNCHANGED << muVars, statsTaskVars, pkgVars, netVars >>

\* Variant of CloseReturn in which Close does not wait for c.wg.
CloseReturnNoWait ==
    /\ closePc = "wait"
    /\ closePc' = "done"
    /\ UNCHANGED << now, closed, wg, configVars, cacheVars, schedVars,
                    accessCh, statsCh, sfLeader, sfWaiters, httpDeadline,
                    pc, ret, seen, obsVars >>
    /\ UNCHANGED << muVars, statsTaskVars, pkgVars, netVars >>

\* ... and c.wg.Wait() returns when the counter is zero.
CloseReturn ==
    /\ closePc = "wait"
    /\ wg = 0
    /\ closePc' = "done"
    /\ UNCHANGED << now, closed, wg, configVars, cacheVars, schedVars,
                    accessCh, statsCh, sfLeader, sfWaiters, httpDeadline,
                    pc, ret, seen, obsVars >>
    /\ UNCHANGED << muVars, statsTaskVars, pkgVars, netVars >>

\* Close called again once it returned: c.cancel() on a cancelled context
\* changes nothing ...
CloseAgain ==
    /\ closePc = "done"
    /\ closed' = TRUE
    /\ closePc' = "wait2"
    /\ UNCHANGED << now, wg, configVars, cacheVars, schedVars, accessCh,
                    statsCh, sfLeader, sfWaiters, httpDeadline, pc,
                    ret, seen, obsVars >>
    /\ UNCHANGED << muVars, statsTaskVars, pkgVars, netVars >>

\* ... and c.wg.Wait() returns when the counter is zero.
CloseAgainReturn ==
    /\ closePc = "wait2"
    /\ wg = 0
    /\ closePc' = "done2"
    /\ UNCHANGED << now, closed, wg, configVars, cacheVars, schedVars,
                    accessCh, statsCh, sfLeader, sfWaiters, httpDeadline,
                    pc, ret, seen, obsVars >>
    /\ UNCHANGED << muVars, statsTaskVars, pkgVars, netVars >>

(* --------------------------- specifications ---------------------------- *)

\* Arguments of the IsEnabled calls of the fetch scenarios.
FetchFlagArgs == {"a"}
FetchTenantArgs == {""}

\* The client while nobody calls Close.
Next ==
    \/ Tick
    \/ \E p \in Procs : FetchStart(p)
    \/ \E p \in Procs : FetchJoin(p)
    \/ \E p \in Procs, r \in Responses : FetchOk(p, r)
    \/ \E p \in Procs : FetchFail(p)
    \/ \E e \in Evaluators, f \in FetchFlagArgs, t \in FetchTenantArgs : CallLocal(e, f, t)
    \/ \E e \in Evaluators : Call(e)
    \/ \E e \in Evaluators : Access(e)
    \/ \E e \in Evaluators, f \in FetchFlagArgs, t \in FetchTenantArgs : Evaluate(e, f, t)
    \/ SchedTick
    \/ SchedAdjust
    \/ SchedAccess

Spec == Init /\ [][Next]_vars

\* Two goroutines call IsEnabled while another calls Close.
CloseCallers == { e \in Evaluators : e <= 2 }
CloseProcs == CloseCallers \cup {Sched}

\* The client with a caller of Close.
NextClose ==
    \/ Tick
    \/ \E p \in CloseProcs : FetchStart(p)
    \/ \E p \in CloseProcs : FetchJoin(p)
    \/ \E p \in CloseProcs, r \in Responses : FetchOk(p, r)
    \/ \E p \in CloseProcs : FetchFail(p)
    \/ \E e \in CloseCallers, f \in FetchFlagArgs, t \in FetchTenantArgs : CallLocal(e, f, t)
    \/ \E e \in CloseCallers : Call(e)
    \/ \E e \in CloseCallers : Access(e)
    \/ \E e \in CloseCallers, f \in FetchFlagArgs, t \in FetchTenantArgs : Evaluate(e, f, t)
    \/ SchedTick
    \/ SchedAdjust
    \/ SchedAccess
    \/ SchedStop
    \/ CloseCancel
    \/ CloseReturn

SpecClose == Init /\ [][NextClose]_vars

(* ------------------------- client with stats --------------------------- *)

\* One goroutine calls IsEnabled.
StatsCallers == {1}
StatsProcs == StatsCallers \cup {Sched}

\* The body the evaluation endpoint of the stats tests answers with.
StatsBody == <<flagReply("a", TRUE, <<>>)>>

\* The client with its stats collector while nobody calls Close.
NextStats ==
    \/ Tick
    \/ \E p \in StatsProcs : FetchStart(p)
    \/ \E p \in StatsProcs : FetchJoin(p)
    \/ \E p \in StatsProcs : FetchOk(p, StatsBody)
    \/ \E p \in StatsProcs : FetchFail(p)
    \/ \E e \in StatsCallers, f \in FlagCodes, t \in TenantArgs : CallLocal(e, f, t)
    \/ \E e \in StatsCallers : Call(e)
    \/ \E e \in StatsCallers : Access(e)
    \/ \E e \in StatsCallers, f \in FetchFlagArgs, t \in FetchTenantArgs : Evaluate(e, f, t)
    \/ SchedTick
    \/ SchedAdjust
    \/ SchedAccess
    \/ StatsTick
    \/ StatsPostOk
    \/ StatsPostFail
    \/ StatsEvent

\* ... and with a caller of Close.
NextShutdown ==
    \/ NextStats
    \/ SchedStop
    \/ StatsStop
    \/ StatsFinalOk
    \/ StatsFinalFail
    \/ CloseCancel
    \/ CloseReturn

\* A request ends by the deadline of its context.
FetchEnds == \E p \in Procs : FetchFail(p) \/ FetchOk(p, StatsBody)
PostEnds == StatsPostOk \/ StatsPostFail
FinalPostEnds == StatsFinalOk \/ StatsFinalFail

\* The background goroutines and the caller of Close are scheduled: a step
\* of theirs that stays possible is taken.  Callers of IsEnabled are under
\* no obligation.
ShutdownFairness ==
    /\ WF_vars(FetchEnds)
    /\ WF_vars(PostEnds)
    /\ WF_vars(FinalPostEnds)
    /\ WF_vars(FetchStart(Sched) \/ FetchJoin(Sched))
    /\ WF_vars(SchedAdjust)
    /\ WF_vars(SchedStop)
    /\ WF_vars(StatsStop)
    /\ WF_vars(CloseReturn)

SpecShutdown == InitStats /\ [][NextShutdown]_vars /\ ShutdownFairness

\* select picks at random among the cases that are ready: the case of
\* c.accessCh is not passed over for ever.
AccessFairness == WF_vars(SchedAccess)

SpecAccess ==
    InitStats /\ [][NextShutdown]_vars /\ ShutdownFairness /\ AccessFairness

(* ------------------------- Configure and Flag -------------------------- *)

\* Options of Configure: WithDisableStats(true).
ConfigureOpts == {TRUE}

\* The package before Configure: DefaultClient is nil, no goroutine runs.
\* The client variables hold what newClient will give them.
InitFlag ==
    /\ InitBase
    /\ statsCap = StatsChCap
    /\ requests = None
    /\ lastUpload = NoUpload
    /\ configured = FALSE
    /\ wg = 0
    /\ nextTick = Zero
    /\ statsPc = "off"
    /\ statsNextTick = Zero

\* Configure: DefaultClient = newClient(serverURL, project, o).
Configure(disableStats) ==
    /\ ~configured
    /\ configured' = TRUE
    /\ wg' = tasksStarted(disableStats)
    /\ nextTick' = now + RefreshSlow
    /\ statsPc' = IF disableStats THEN "off" ELSE "select"
    /\ statsNextTick' = IF disableStats THEN Zero ELSE now + StatsInterval
    /\ UNCHANGED << now, closeVars, configVars, cacheVars, lastAccess,
                    refreshInterval, tickerC, accessCh, statsCh, sfLeader,
                    sfWaiters, httpDeadline, pc, ret, seen, obsVars, muVars,
                    stats, statsTickerC, postDeadline, netVars >>

\* Flag while DefaultClient is nil: "Uninitialized client is considered as
\* disabled", the call returns false.
FlagUnconfigured(e, code, tenant) ==
    /\ ~configured
    /\ pc[e] = "idle"
    /\ ret' = [ret EXCEPT ![e] = Ret(code, tenant, FALSE)]
    /\ UNCHANGED << now, closeVars, wg, configVars, cacheVars, schedVars,
                    accessCh, statsCh, sfLeader, sfWaiters, httpDeadline,
                    pc, seen, obsVars >>
    /\ UNCHANGED << muVars, statsTaskVars, pkgVars, netVars >>

\* Flag once DefaultClient is set is DefaultClient.IsEnabled; the
\* goroutines of the client run from Configure on.
NextFlag ==
    \/ \E e \in Evaluators, f \in FetchFlagArgs, t \in FetchTenantArgs :
           FlagUnconfigured(e, f, t)
    \/ \E d \in ConfigureOpts : Configure(d)
    \/ configured /\ Next

SpecFlag == InitFlag /\ [][NextFlag]_vars

(* ---------------------- TestFetchProgressiveTimers --------------------- *)

\* Length of the scenario: 20 x 15 s, 25 x 1 min and 2 x 5 min.
ScenarioTime == 480

\* The body the transport of the fetch tests answers with, at once.
ScenarioBody == <<flagReply("a", TRUE, <<>>)>>

\* initFetch(0): newClient without stats collector, local mode off, and the
\* counting transport installed.
InitTimers ==
    /\ InitBase
    /\ statsCap = StatsChCap
    /\ configured = TRUE
    /\ ~local
    /\ staleDuration = DefaultStaleDuration
    /\ wg = tasksStarted(TRUE)
    /\ nextTick = RefreshSlow
    /\ statsPc = "off"
    /\ statsNextTick = Zero
    /\ requests = 0
    /\ lastUpload = NoUpload

\* synctest: every goroutine of the bubble is blocked.
quiescent ==
    /\ \A e \in Evaluators : pc[e] = "idle"
    /\ pc[Sched] = "select"
    /\ ~tickerC
    /\ accessCh = 0
    /\ sfLeader = None

\* synctest: the clock moves only when every goroutine is blocked.
TimersTick == quiescent /\ TickTo(ScenarioTime)

\* The one Flag call of the test, before any sleep.
TimersCall(e) ==
    /\ now = 0
    /\ ~ret[e].valid
    /\ Call(e)

NextTimers ==
    \/ TimersTick
    \/ TimersCall(1)
    \/ \E p \in Procs : FetchStart(p)
    \/ \E p \in Procs : FetchOk(p, ScenarioBody)
    \/ Access(1)
    \/ \E f \in FetchFlagArgs, t \in FetchTenantArgs : Evaluate(1, f, t)
    \/ SchedTick
    \/ SchedAdjust
    \/ SchedAccess

SpecTimers == InitTimers /\ [][NextTimers]_vars

(* ------------------------------ stats tests ----------------------------- *)

\* Flag calls of TestStatsEnabledTotalHits, the first EnabledCalls of them
\* with the tenant the flag is enabled for.
TestCalls == 5
EnabledCalls == 2

\* make(chan accessEvent, 500)
StatsChSize == 500

\* The snapshot the evaluation endpoint of the stats tests answers with: a
\* flag enabled for everybody and a flag enabled for one tenant.
StatsTestBody ==
    << flagReply("a", TRUE, <<>>),
       flagReply("b", TRUE, <<flagTenant("t1", TRUE)>>) >>

\* initStats: newClient with the stats collector, local mode off, and the
\* recording transport installed.
InitHits ==
    /\ InitBase
    /\ statsCap = StatsChSize
    /\ configured = TRUE
    /\ ~local
    /\ staleDuration = DefaultStaleDuration
    /\ wg = tasksStarted(FALSE)
    /\ nextTick = RefreshSlow
    /\ statsPc = "select"
    /\ statsNextTick = StatsInterval
    /\ requests = None
    /\ lastUpload = FakeUpload

\* Calls of the test that returned: their events are queued or counted (the
\* test never sleeps, every event goes to the bucket of minute 0).
hitsDone == hitsOf(stats, "b", 0) + Len(statsCh)

\* The next Flag call of the test.
HitsCall ==
    /\ closePc = "idle"
    /\ hitsDone < TestCalls
    /\ Call(1)

\* The lookup of the call: flag "b", for tenant "t1" in the first
\* EnabledCalls calls and for tenant "t2" afterwards.
HitsEvaluate ==
    Evaluate(1, "b", IF hitsDone < EnabledCalls THEN "t1" ELSE "t2")

\* The test calls Close between two Flag calls or after the last.
HitsClose == pc[1] = "idle" /\ CloseCancel

NextHits ==
    \/ HitsCall
    \/ FetchStart(1)
    \/ FetchOk(1, StatsTestBody)
    \/ Access(1)
    \/ HitsEvaluate
    \/ SchedAccess
    \/ StatsEventTo(TestCalls)
    \/ HitsClose
    \/ SchedStop
    \/ StatsStop
    \/ StatsFinalOk
    \/ StatsFinalFail
    \/ CloseReturn
    \/ CloseAgain
    \/ CloseAgainReturn

SpecHits == InitHits /\ [][NextHits]_vars

\* TestStatsMultipleFlagsMultipleMinutes, with an outage of the stats
\* endpoint that may last beyond the 20 hours of the cleanup: every upload
\* may fail or be accepted.
OutageTime == 14424

\* time.Sleep(90 * time.Second) before the second Flag call.
SecondCallAt == 18

\* synctest: the stats collector is blocked as well.
statsQuiescent ==
    /\ quiescent
    /\ statsPc \in {"select", "exited"}
    /\ ~statsTickerC
    /\ statsCh = <<>>

\* The test sleeps once its first Flag call returned, and is over once it
\* called Close.
OutageTick ==
    /\ ret[1].valid
    /\ closePc = "idle"
    /\ statsQuiescent
    /\ TickTo(OutageTime)

\* Flag("global-enabled") before the sleep, Flag("global-disabled") after.
OutageCall ==
    /\ closePc = "idle"
    /\ \/ now = 0 /\ ~ret[1].valid
       \/ now = SecondCallAt /\ ret[1].valid /\ ret[1].flag = "a"
    /\ Call(1)

\* The lookups of the two calls: an enabled flag, then one that is not.
OutageEvaluate ==
    IF now = 0 THEN Evaluate(1, "a", "") ELSE Evaluate(1, "b", "t2")

\* DefaultClient.Close() after the sleep, when no Flag call is running.
OutageClose ==
    /\ now = SecondCallAt
    /\ pc[1] = "idle"
    /\ CloseCancel

NextOutage ==
    \/ OutageTick
    \/ OutageCall
    \/ \E p \in {Sched, 1} : FetchStart(p)
    \/ \E p \in {Sched, 1} : FetchOk(p, StatsTestBody)
    \/ Access(1)
    \/ OutageEvaluate
    \/ SchedTick
    \/ SchedAdjust
    \/ SchedAccess
    \/ StatsTick
    \/ StatsPostOk
    \/ StatsPostFail
    \/ StatsEvent
    \/ OutageClose
    \/ SchedStop
    \/ StatsStop
    \/ StatsFinalOk
    \/ StatsFinalFail
    \/ CloseReturn

SpecOutage == InitHits /\ [][NextOutage]_vars

(* --------------------------- resuming traffic --------------------------- *)

\* The client of the fetch tests under traffic: an evaluation at the start,
\* evaluations every 5 seconds for a while, silence, an evaluation once the
\* interval is 1 minute, silence, an evaluation once it is 5 minutes.  Any
\* request may fail.
TrafficTime == 510
StreamTimes == 1 .. 9
ResumeTimes == {100, 500}

\* The clock moves when every goroutine is blocked, the first evaluation
\* being made before any sleep.
TrafficTick == ret[1].valid /\ quiescent /\ TickTo(TrafficTime)

\* An evaluation at one of the instants of the scenario, one per instant.
TrafficCall ==
    /\ now \in {0} \cup StreamTimes \cup ResumeTimes
    /\ lastAccess # now
    /\ accessCh = 0
    /\ Call(1)

NextTraffic ==
    \/ TrafficTick
    \/ TrafficCall
    \/ \E p \in Procs : FetchStart(p)
    \/ \E p \in Procs : FetchOk(p, ScenarioBody)
    \/ \E p \in Procs : FetchFail(p)
    \/ Access(1)
    \/ \E f \in FetchFlagArgs, t \in FetchTenantArgs : Evaluate(1, f, t)
    \/ SchedTick
    \/ SchedAdjust
    \/ SchedAccess

SpecTraffic == InitTimers /\ [][NextTraffic]_vars

(* ------------------------- a collector that lags ------------------------ *)

\* The client of the stats tests on the real clock, followed a little
\* beyond its first minute: evaluations are made at the start and at the
\* end of the first minute only, the goroutines run at any pace.
LagTime == 13

LagTick == TickTo(LagTime)

\* An evaluation in the first minute, one per instant.
LagCall ==
    /\ now \in {0, StatsInterval - 1}
    /\ lastAccess # now
    /\ accessCh = 0
    /\ Call(1)

\* The lookup of the call is made in the first minute as well.
LagEvaluate == now < StatsInterval /\ Evaluate(1, "a", "")

NextLag ==
    \/ LagTick
    \/ LagCall
    \/ \E p \in {Sched, 1} : FetchStart(p)
    \/ \E p \in {Sched, 1} : FetchOk(p, StatsTestBody)
    \/ Access(1)
    \/ LagEvaluate
    \/ SchedTick
    \/ SchedAdjust
    \/ SchedAccess
    \/ StatsTick
    \/ StatsPostOk
    \/ StatsPostFail
    \/ StatsEvent

SpecLag == InitHits /\ [][NextLag]_vars

(* ---------------------- evaluations during a flush ---------------------- *)

\* The same client with an evaluation at the start and one when the flush
\* ticker fires: the second event may be queued before, while or after the
\* mapping is uploaded.
FlushCall ==
    /\ now \in {0, StatsInterval}
    /\ lastAccess # now
    /\ accessCh = 0
    /\ Call(1)

FlushEvaluate == Evaluate(1, "a", "")

NextFlush ==
    \/ LagTick
    \/ FlushCall
    \/ \E p \in {Sched, 1} : FetchStart(p)
    \/ \E p \in {Sched, 1} : FetchOk(p, StatsTestBody)
    \/ Access(1)
    \/ FlushEvaluate
    \/ SchedTick
    \/ SchedAdjust
    \/ SchedAccess
    \/ StatsTick
    \/ StatsPostOk
    \/ StatsPostFail
    \/ StatsEvent

SpecFlush == InitHits /\ [][NextFlush]_vars

(* ------------------------------- c.mu ---------------------------------- *)

\* Variant of canRLock for a read that does not wait for the writer.
canRLockAlways == TRUE

\* c.mu.RLock() goes through while no goroutine is inside c.mu.Lock().
canRLock == muWriter = None

\* c.mu.Lock() goes through while nobody holds the mutex.
canLock == muWriter = None /\ muReaders = {}

\* The clock, while no goroutine is between c.mu.Lock() and Unlock().
MuTick == muWriter = None /\ Tick

\* isStale: RLock, read c.stale, RUnlock.
MuCall(e) == canRLock /\ Call(e)

\* safeFetch: RLock, read c.lastRefresh, RUnlock, then the rate floor.
MuFetchStart(p) == canRLock /\ FetchStart(p)

\* safeFetch decoded a 200 response and takes c.mu.Lock().
MuLock(p, fetched) ==
    /\ pc[p] = "http"
    /\ ~closed
    /\ canLock
    /\ muWriter' = p
    /\ muBody' = fetched
    /\ pc' = [pc EXCEPT ![p] = "wFlags"]
    /\ UNCHANGED << now, closeVars, wg, configVars, cacheVars, schedVars,
                    accessCh, statsCh, sfLeader, sfWaiters, httpDeadline,
                    ret, seen, obsVars, muReaders, statsTaskVars, pkgVars, netVars >>

\* c.flags = fetched
MuWriteFlags(p) ==
    /\ pc[p] = "wFlags"
    /\ flags' = storeFlags(muBody)
    /\ pc' = [pc EXCEPT ![p] = "wStale"]
    /\ UNCHANGED << now, closeVars, wg, configVars, stale, lastRefresh,
                    schedVars, accessCh, statsCh, sfLeader, sfWaiters,
                    httpDeadline, ret, seen, obsVars, muVars, statsTaskVars,
                    pkgVars, netVars >>

\* c.stale = time.Now().Add(c.staleDuration)
MuWriteStale(p) ==
    /\ pc[p] = "wStale"
    /\ stale' = storeStale
    /\ pc' = [pc EXCEPT ![p] = "wRefresh"]
    /\ UNCHANGED << now, closeVars, wg, configVars, flags, lastRefresh,
                    schedVars, accessCh, statsCh, sfLeader, sfWaiters,
                    httpDeadline, ret, seen, obsVars, muVars, statsTaskVars,
                    pkgVars, netVars >>

\* c.lastRefresh = time.Now(), c.mu.Unlock(), and safeFetch and sf.Do return.
MuWriteRefresh(p) ==
    /\ pc[p] = "wRefresh"
    /\ lastRefresh' = storeLastRefresh
    /\ muWriter' = None
    /\ muBody' = <<>>
    /\ sfRelease(p)
    /\ seen' = [e \in Evaluators |-> "none"]
    /\ lastOutcome' = "ok"
    /\ lastBody' = muBody
    /\ okAt' = now
    /\ endedAt' = now
    /\ UNCHANGED << now, closeVars, configVars, flags, stale, schedVars,
                    accessCh, statsCh, ret, muReaders, statsTaskVars, pkgVars, netVars >>

\* The error path of fetch: Lock, c.stale, Unlock.
MuFail(p) == canLock /\ FetchFail(p)

\* IsEnabled takes c.mu.RLock() for the lookup.
MuRLock(e) ==
    /\ pc[e] = "eval"
    /\ canRLock
    /\ muReaders' = muReaders \cup {e}
    /\ pc' = [pc EXCEPT ![e] = "evalLocked"]
    /\ UNCHANGED << now, closeVars, wg, configVars, cacheVars, schedVars,
                    accessCh, statsCh, sfLeader, sfWaiters, httpDeadline,
                    ret, seen, obsVars, muWriter, muBody, statsTaskVars,
                    pkgVars, netVars >>

\* The lookup, trackAccess, the return and the deferred c.mu.RUnlock().
MuEvaluate(e, flag, tenant) ==
    /\ pc[e] = "evalLocked"
    /\ LET value == evalFlags(flags, flag, tenant) IN
         /\ statsCh' = trackAccess(statsCh, flag, value)
         /\ ret' = [ret EXCEPT ![e] = Ret(flag, tenant, value)]
    /\ muReaders' = muReaders \ {e}
    /\ pc' = [pc EXCEPT ![e] = "idle"]
    /\ UNCHANGED << now, closeVars, wg, configVars, cacheVars, schedVars,
                    accessCh, sfLeader, sfWaiters, httpDeadline, seen,
                    obsVars, muWriter, muBody, statsTaskVars, pkgVars, netVars >>

\* The client of the fetch tests, with every section of c.mu in steps.
InitMu == Init /\ ~local

\* The goroutines of the lock scenario: the scheduler and two callers of
\* IsEnabled, each of which may be the one that fetches.
LockCallers == { e \in Evaluators : e <= 2 }
LockProcs == LockCallers \cup {Sched}

NextMu ==
    \/ MuTick
    \/ \E p \in LockProcs : MuFetchStart(p)
    \/ \E p \in LockProcs : FetchJoin(p)
    \/ \E p \in LockProcs, r \in Responses : MuLock(p, r)
    \/ \E p \in LockProcs : MuWriteFlags(p)
    \/ \E p \in LockProcs : MuWriteStale(p)
    \/ \E p \in LockProcs : MuWriteRefresh(p)
    \/ \E p \in LockProcs : MuFail(p)
    \/ \E e \in LockCallers : MuCall(e)
    \/ \E e \in LockCallers : Access(e)
    \/ \E e \in LockCallers : MuRLock(e)
    \/ \E e \in LockCallers, f \in FetchFlagArgs, t \in FetchTenantArgs : MuEvaluate(e, f, t)
    \/ SchedTick
    \/ SchedAdjust
    \/ SchedAccess

SpecMu == InitMu /\ [][NextMu]_vars

(* ------------------------ evaluation of IsEnabled ----------------------- *)

\* Flag codes and tenants asked for: "c" is in no drawn snapshot.
EvalFlagArgs == FlagCodes \cup {"c"}

\* The client as the evaluation tests build it (initFlags): a struct literal
\* with a flag list, stale one minute ahead and an access channel; no
\* goroutine is started and every other field is the zero value.  The flag
\* list is drawn from Snapshots.
InitEval ==
    /\ now = 0
    /\ closed = FALSE
    /\ closePc = "idle"
    /\ wg = 0
    /\ local = FALSE
    /\ staleDuration = 0
    /\ staleDurationError = 0
    /\ maxFetchInterval = 0
    /\ stale = now + DefaultStaleDuration
    /\ flags \in Snapshots
    /\ lastRefresh = Zero
    /\ lastAccess = Zero
    /\ refreshInterval = 0
    /\ tickerC = FALSE
    /\ nextTick = Zero
    /\ accessCh = 0
    /\ statsCh = <<>>
    /\ statsCap = 0
    /\ sfLeader = None
    /\ sfWaiters = {}
    /\ httpDeadline = Zero
    /\ pc = [p \in Procs |-> IF p = Sched THEN "exited" ELSE "idle"]
    /\ ret = [e \in Evaluators |-> NoRet]
    /\ seen = [e \in Evaluators |-> "none"]
    /\ lastOutcome = "none"
    /\ lastBody = flags
    /\ okAt = Zero
    /\ endedAt = Zero
    /\ muWriter = None
    /\ muReaders = {}
    /\ muBody = <<>>
    /\ statsPc = "off"
    /\ stats = NoStats
    /\ statsTickerC = FALSE
    /\ statsNextTick = Zero
    /\ postDeadline = Zero
    /\ configured = TRUE
    /\ requests = None
    /\ lastUpload = NoUpload
    /\ resets = 0

\* One caller evaluates flags one after the other.
NextEval ==
    \/ Call(1)
    \/ Access(1)
    \/ \E f \in EvalFlagArgs, t \in TenantArgs : Evaluate(1, f, t)

SpecEval == InitEval /\ [][NextEval]_vars

(* ------------------------------- claims -------------------------------- *)

\* Goroutines inside fetch(): running the function or waiting for it.
running == { p \in Procs : pc[p] = "http" }
waiting == { p \in Procs : pc[p] = "sfWait" }

\* The instant the request in flight was handed to the transport.
requestedAt == httpDeadline - HttpTimeout

\* C1: evaluators that find the same stale snapshot cause exactly one GET.
\* An evaluator with a GET in flight found the snapshot stale, and c.stale
\* was not written since: the stale state it saw has had no other GET (every
\* write of c.stale ends a GET).
C1_OneGetPerStaleState ==
    \A e \in Evaluators : pc[e] = "http" => seen[e] = "stale"

\* C2: at most one GET is in flight; goroutines whose calls of fetch()
\* overlap share the one execution: one of them runs it, the others wait
\* for it.
C2_OneFetchInFlight ==
    /\ Cardinality(running) <= 1
    /\ running = (IF sfLeader = None THEN {} ELSE {sfLeader})
    /\ waiting = sfWaiters
    /\ waiting # {} => running # {}

\* A scheduler tick and an evaluator are inside fetch() at the same time.
C2_Witness ==
    /\ pc[Sched] \in {"http", "sfWait"}
    /\ \E e \in Evaluators : pc[e] \in {"http", "sfWait"}

\* C3: after a request that failed, the flag list is still the last decoded
\* body and lastRefresh still the instant of the last success, so every
\* flag evaluates as on the previous snapshot.
C3_FailureKeepsSnapshot ==
    lastOutcome = "fail" =>
        /\ flags = lastBody
        /\ lastRefresh = okAt
        /\ \A f \in EvalFlagArgs, t \in TenantArgs :
               evalFlags(flags, f, t) = evalFlags(lastBody, f, t)

\* A request failed after one succeeded, and a caller was answered true.
C3_Witness ==
    /\ lastOutcome = "fail"
    /\ okAt # Zero
    /\ endedAt > okAt
    /\ flags # <<>>
    /\ \E e \in Evaluators : ret[e].valid /\ ret[e].value

\* C4 as claimed: after a fetch failed at t the snapshot is not stale again
\* before t + error-backoff window.  From a state whose last request failed
\* (c.stale is t + window) and in which the scheduler's own request is in
\* flight, a step to an instant before c.stale leaves the snapshot fresh.
C4_NotStaleBeforeBackoff ==
    [][ (lastOutcome = "fail" /\ pc[Sched] = "http" /\ now' < stale)
            => (stale' # Zero /\ now' < stale') ]_vars

\* C4, amended: while the last request is the one that failed at t, c.stale
\* is t + staleDurationError, and before that instant no call that checks
\* staleness finds the snapshot stale or enters fetch().
C4_BackoffAfterFailure ==
    lastOutcome = "fail" =>
        /\ stale = endedAt + staleDurationError
        /\ now < endedAt + staleDurationError =>
               \A e \in Evaluators :
                   /\ seen[e] # "stale"
                   /\ seen[e] = "fresh" => pc[e] = "access"

\* A call made after the failure found the snapshot fresh.
C4_Witness ==
    /\ lastOutcome = "fail"
    /\ \E e \in Evaluators : seen[e] = "fresh" /\ pc[e] = "access"

\* C5: after a request that succeeded at t, the flag list is exactly the
\* decoded body, c.stale is t + staleDuration and lastRefresh is t.
C5_SuccessReplacesSnapshot ==
    lastOutcome = "ok" =>
        /\ flags = lastBody
        /\ endedAt = okAt
        /\ stale = okAt + staleDuration
        /\ lastRefresh = okAt

\* A second body replaced a first one: flag "a" was answered true and is no
\* longer in the list.
C5_Witness ==
    /\ lastOutcome = "ok"
    /\ flags # <<>>
    /\ \A i \in 1 .. Len(flags) : flags[i].Code # "a"
    /\ \E e \in Evaluators : ret[e].valid /\ ret[e].flag = "a" /\ ret[e].value

\* C6: after a successful fetch, a call whose staleness check runs while
\* now < c.stale does not find the snapshot stale and goes on without
\* fetch().
C6_FreshCallsDoNotFetch ==
    (lastOutcome = "ok" /\ now < stale) =>
        \A e \in Evaluators :
            /\ seen[e] # "stale"
            /\ seen[e] = "fresh" => pc[e] = "access"

\* A call made within the freshness window of a success.
C6_Witness ==
    /\ lastOutcome = "ok"
    /\ now < stale
    /\ \E e \in Evaluators : seen[e] = "fresh" /\ pc[e] = "access"

\* C7: a fetch triggered less than maxFetchInterval after the previous
\* attempt ended, successful or failed, issues no request.  Stated for the
\* fetches of the scheduler and of evaluators whose stale state is still
\* current: the request in flight was not handed to the transport within
\* maxFetchInterval of the end of the attempt before it.
C7_FloorAfterAnyAttempt ==
    \A p \in running :
        (p = Sched \/ seen[p] = "stale") =>
            (endedAt = Zero \/ requestedAt - endedAt >= maxFetchInterval)

\* The entry that IsEnabled finds for a code is the first one with it.
hasFlag(code) == \E i \in 1 .. Len(flags) : flags[i].Code = code

flagOf(code) ==
    flags[CHOOSE i \in 1 .. Len(flags) :
            /\ flags[i].Code = code
            /\ \A j \in 1 .. (i - 1) : flags[j].Code # code]

matches(f, tenant) == { i \in 1 .. Len(f.Tenants) : f.Tenants[i].Code = tenant }

firstMatch(f, tenant) ==
    f.Tenants[CHOOSE i \in matches(f, tenant) :
                \A j \in matches(f, tenant) : i <= j]

\* C8: a flag with enabled=false is answered false for every tenant, also
\* one that has an override with enabled=true.
C8_KillSwitch ==
    \A e \in Evaluators :
        (ret[e].valid /\ hasFlag(ret[e].flag) /\ ~flagOf(ret[e].flag).Enabled)
            => ret[e].value = FALSE

\* A disabled flag was asked for a tenant whose override is enabled.
C8_Witness ==
    /\ ret[1].valid
    /\ hasFlag(ret[1].flag)
    /\ ~flagOf(ret[1].flag).Enabled
    /\ \E i \in matches(flagOf(ret[1].flag), ret[1].tenant) :
           flagOf(ret[1].flag).Tenants[i].Enabled

\* C9: a flag with enabled=true and tenant overrides is answered with the
\* enabled value of the override of the supplied tenant, and false when no
\* override has that code (the empty tenant included).
C9_TenantOverride ==
    \A e \in Evaluators :
        (/\ ret[e].valid
         /\ hasFlag(ret[e].flag)
         /\ flagOf(ret[e].flag).Enabled
         /\ Len(flagOf(ret[e].flag).Tenants) > 0)
            => ret[e].value =
                 (IF matches(flagOf(ret[e].flag), ret[e].tenant) = {}
                  THEN FALSE
                  ELSE firstMatch(flagOf(ret[e].flag), ret[e].tenant).Enabled)

\* An enabled flag was answered true for the tenant of its second override.
C9_Witness ==
    /\ ret[1].valid
    /\ ret[1].value
    /\ hasFlag(ret[1].flag)
    /\ flagOf(ret[1].flag).Enabled
    /\ Len(flagOf(ret[1].flag).Tenants) = 2
    /\ matches(flagOf(ret[1].flag), ret[1].tenant) = {2}

\* C10: a flag code that is not in the snapshot is answered false for every
\* tenant.
C10_UnknownFlag ==
    \A e \in Evaluators :
        (ret[e].valid /\ ~hasFlag(ret[e].flag)) => ret[e].value = FALSE

\* A code that is in no entry was asked for a tenant on a snapshot whose
\* entries are enabled.
C10_Witness ==
    /\ ret[1].valid
    /\ ~hasFlag(ret[1].flag)
    /\ ret[1].tenant = "t1"
    /\ Len(flags) = 2
    /\ \A i \in 1 .. Len(flags) : flags[i].Enabled

\* C11: a flag without tenant overrides is answered with its own enabled
\* value for every tenant argument, the empty one included.
C11_GlobalFlag ==
    \A e \in Evaluators :
        (/\ ret[e].valid
         /\ hasFlag(ret[e].flag)
         /\ Len(flagOf(ret[e].flag).Tenants) = 0)
            => ret[e].value = flagOf(ret[e].flag).Enabled

\* An enabled flag without overrides was answered true for a tenant.
C11_Witness ==
    /\ ret[1].valid
    /\ ret[1].value
    /\ ret[1].tenant = "t2"
    /\ hasFlag(ret[1].flag)
    /\ Len(flagOf(ret[1].flag).Tenants) = 0
    /\ flagOf(ret[1].flag).Enabled

\* C12: a fetch error does not reach the caller of IsEnabled.  The step that
\* ends a failed request leaves the flag list alone and lets every evaluator
\* that was inside fetch() go on with its call; a call that returns delivers
\* the evaluation of the flag list as it is; and while no request ever
\* succeeded the list is empty and every answer is false.
C12_FetchErrorAbsorbed ==
    /\ []((~local /\ okAt = Zero) =>
            /\ flags = <<>>
            /\ \A e \in Evaluators : ret[e].valid => ret[e].value = FALSE)
    /\ [][ \A e \in Evaluators :
             /\ (pc[e] \in {"http", "sfWait"} /\ lastOutcome' = "fail"
                   /\ pc'[e] # pc[e])
                    => (pc'[e] = "access" /\ flags' = flags)
             /\ (~local /\ ret'[e] # ret[e] /\ ret'[e].valid)
                    => /\ pc[e] = "eval"
                       /\ ret'[e].value =
                            evalFlags(flags, ret'[e].flag, ret'[e].tenant) ]_vars

\* The only request so far was triggered by an evaluator (no tick of the
\* scheduler was due yet) and failed, and every evaluator's call returned
\* false.
C12_Witness ==
    /\ lastOutcome = "fail"
    /\ okAt = Zero
    /\ now < RefreshFast
    /\ \A e \in Evaluators : ret[e].valid /\ ~ret[e].value

\* C13: no caller of IsEnabled blocks forever.  A caller at the send on
\* c.accessCh with the channel full and backgroundFetch returned can never
\* go on: nothing receives from the channel any more.
C13_NoCallerStuck ==
    \A e \in Evaluators :
        ~(pc[e] = "access" /\ accessCh = AccessChCap /\ pc[Sched] = "exited")

\* C15: once Close has returned no GET is sent to the evaluation endpoint,
\* neither for the scheduler, which has returned, nor for a caller of
\* IsEnabled that finds the snapshot stale.
C15_NoFetchAfterClose ==
    closePc = "done" =>
        /\ pc[Sched] = "exited"
        /\ running = {}
        /\ sfLeader = None

\* After Close returned a caller found the snapshot stale, went through
\* fetch() and is past it.
C15_Witness ==
    /\ closePc = "done"
    /\ lastOutcome = "fail"
    /\ \E e \in Evaluators : pc[e] = "access" /\ endedAt = now /\ stale = now + staleDurationError
    /\ okAt # Zero

\* What a goroutine that holds c.mu for reading can see: the list, the
\* deadline and the refresh instant of one and the same fetch.
published ==
    /\ flags = lastBody
    /\ lastRefresh = okAt
    /\ lastOutcome = "ok" => stale = okAt + staleDuration

\* C14: no evaluator sees a snapshot in the middle of its update.  Nobody
\* reads under c.mu while a fetch is between its writes, outside of the
\* writes flags, c.stale and c.lastRefresh belong to one fetch, and every
\* answer is the evaluation of one whole list: the empty one or one body.
C14_NoPartialSnapshot ==
    /\ muWriter # None => muReaders = {}
    /\ muWriter = None => published
    /\ \A e \in Evaluators :
           ret[e].valid =>
               \E F \in {<<>>} \cup Responses :
                   ret[e].value = evalFlags(F, ret[e].flag, ret[e].tenant)

\* A fetch has replaced a first list by a second and not yet written the
\* deadline, while an evaluator is about to take the read lock.
C14_Witness ==
    /\ \E p \in Procs : pc[p] = "wStale"
    /\ lastBody # <<>>
    /\ flags # lastBody
    /\ \E e \in Evaluators : pc[e] = "eval"

\* C16: Close terminates.  Once Close has cancelled the context, the
\* scheduler and the stats collector return and Close returns; and Close
\* does not return while one of the two goroutines runs or a fetch that
\* was counted in c.wg is in flight.
C16_CloseTerminates ==
    /\ (closePc = "wait") ~>
           (closePc = "done" /\ pc[Sched] = "exited" /\ statsPc = "exited")
    /\ [](closePc = "done" => (pc[Sched] = "exited" /\ statsPc = "exited"))
    /\ [][ (closePc = "wait" /\ closePc' = "done")
              => (wg = 0 /\ sfLeader = None /\ running = {}) ]_vars

\* Close has cancelled the context while a GET and a stats upload on the
\* flush timer are both in flight.
C16_Witness ==
    /\ closePc = "wait"
    /\ running # {}
    /\ statsPc = "post"

\* C17: a Flag call made before Configure fails loudly instead of returning
\* a boolean: while no client is configured, no call returns a value.
C17_UnconfiguredFlagFaults ==
    [][ ~configured => ret' = ret ]_vars

\* C18: in local mode every IsEnabled call returns true whatever the flag
\* and the tenant, and no caller starts a fetch, sends an access
\* notification or a stats event; the stats collector never has an upload
\* in flight, be it on its ticker or at Close.
C18_LocalMode ==
    local =>
        /\ \A e \in Evaluators :
               /\ pc[e] = "idle"
               /\ seen[e] = "none"
               /\ ret[e].valid => ret[e].value = TRUE
        /\ sfLeader \in {None, Sched}
        /\ accessCh = 0
        /\ statsCh = <<>>
        /\ stats = NoStats
        /\ statsPc \notin {"post", "final"}
        /\ postDeadline = Zero

\* Local mode: a call with a tenant returned, the stats ticker fired and
\* its tick was taken, and the collector went through its flush at Close.
C18_Witness ==
    /\ local
    /\ ret[1].valid /\ ret[1].flag = "b" /\ ret[1].tenant = "t1"
    /\ statsNextTick > StatsInterval
    /\ ~statsTickerC
    /\ statsPc = "exited"

\* A step in which backgroundFetch recomputes the refresh interval: the end
\* of its tick case, or a notification taken from c.accessCh.
recomputes ==
    \/ pc[Sched] = "adjust" /\ pc'[Sched] = "select"
    \/ accessCh' < accessCh

\* C19: each time the scheduler recomputes the refresh interval the result
\* depends on the time since the last consumed access only: 15 seconds
\* under 5 minutes, 1 minute from 5 minutes and under 30 minutes, 5 minutes
\* from 30 minutes or when no access was ever consumed.  The interval holds
\* no other value and changes in no other step.
C19_IntervalFollowsLastAccess ==
    /\ [](refreshInterval \in {RefreshFast, RefreshMid, RefreshSlow})
    /\ [][ IF recomputes
           THEN refreshInterval' =
                    IF lastAccess' = Zero THEN RefreshSlow
                    ELSE IF now - lastAccess' < AccessRecent THEN RefreshFast
                    ELSE IF now - lastAccess' < AccessIdle THEN RefreshMid
                    ELSE RefreshSlow
           ELSE refreshInterval' = refreshInterval ]_vars

\* The scheduler just relaxed to 1 minute, exactly 5 minutes after the last
\* consumed access, having refreshed every 15 seconds until then.
C19_Witness ==
    /\ lastAccess # Zero
    /\ now - lastAccess = AccessRecent
    /\ refreshInterval = RefreshMid
    /\ pc[Sched] = "select"
    /\ resets = 2

\* Requests the scenario has sent by time t, when the evaluation of t = 0
\* was made: the one of the evaluation, one per 15 second tick of the
\* first 5 minutes, one per 1 minute tick up to 30 minutes, one per 5
\* minute tick after that.
fetchesBy(t) ==
    1 + (IF t < AccessRecent THEN t \div RefreshFast
         ELSE AccessRecent \div RefreshFast)
      + (IF t < AccessRecent THEN 0
         ELSE IF t < AccessIdle THEN (t - AccessRecent) \div RefreshMid
         ELSE (AccessIdle - AccessRecent) \div RefreshMid)
      + (IF t < AccessIdle THEN 0 ELSE (t - AccessIdle) \div RefreshSlow)

\* The first 5 minute tick of the scenario, 35 minutes after the evaluation.
fiveMinuteTick == AccessIdle + RefreshSlow

\* The scenario after its evaluation at t = 0, every goroutine at rest.
settled == ret[1].valid /\ quiescent

\* A tick taken by backgroundFetch leads to fetch() and then to
\* adjustInterval, and c.ticker.Reset is called only by a recomputation
\* that changed the interval.
tickFetchesThenAdjusts ==
    /\ [][ (pc[Sched] = "select" /\ tickerC /\ ~tickerC')
               => pc'[Sched] = "fetch" ]_vars
    /\ [][ (pc[Sched] = "fetch" /\ pc'[Sched] # "fetch")
               => (pc'[Sched] = "http" /\ requests' = requests + 1) ]_vars
    /\ [][ (pc[Sched] = "http" /\ pc'[Sched] # "http")
               => (pc'[Sched] = "adjust" /\ requests' = requests) ]_vars
    /\ [][ (pc[Sched] = "adjust" /\ pc'[Sched] # "adjust") => recomputes ]_vars
    /\ [][ resets' # resets
               => (recomputes /\ refreshInterval' # refreshInterval
                   /\ nextTick' = now + refreshInterval') ]_vars
    /\ [][ nextTick' # nextTick => (resets' # resets \/ now' # now) ]_vars

\* C20 as stated: every tick triggers one fetch and then the
\* recomputation, the timer is reset only when the interval changed, and
\* the scenario sends 1 request at t = 0, 20 on the 15 second ticks, 25 on
\* the 1 minute ticks and 1 on the 5 minute tick, 48 in total.
C20_FortyEightAtFiveMinuteTick ==
    /\ tickFetchesThenAdjusts
    /\ []((settled /\ now <= fiveMinuteTick) => requests = fetchesBy(now))
    /\ []((settled /\ now = fiveMinuteTick) => requests = 48)

\* C20, amended: every tick triggers one fetch and then the recomputation,
\* the timer is reset only when the interval changed, and the scenario
\* sends 1 request at t = 0, 20 on the 15 second ticks, 25 on the 1 minute
\* ticks and 1 on each 5 minute tick: 47 in total at the first 5 minute
\* tick (35 minutes), 48 only at the second one (40 minutes).
C20_TickFetchesOnce ==
    /\ tickFetchesThenAdjusts
    /\ [](settled => requests = fetchesBy(now))
    /\ []((settled /\ now = fiveMinuteTick) => requests = 47)
    /\ []((settled /\ now = fiveMinuteTick + RefreshSlow) => requests = 48)

\* The end of the scenario: 40 minutes after the evaluation, the second 5
\* minute tick was served, the ticker was reset three times.
C20_Witness ==
    /\ settled
    /\ now = fiveMinuteTick + RefreshSlow
    /\ requests = 48
    /\ resets = 3
    /\ refreshInterval = RefreshSlow

\* C21: queuing a stats event never blocks IsEnabled.  The lookup of a call
\* can always complete; with a full stats queue the event is dropped and
\* the queue is left as it was, otherwise the event goes to its end; the
\* queue never exceeds its capacity; the value returned is the one the
\* snapshot gives in both cases.
C21_StatsNeverBlock ==
    /\ [](Len(statsCh) <= statsCap)
    /\ [](\A e \in StatsCallers :
              pc[e] = "eval" =>
                  ENABLED (\E f \in FetchFlagArgs, t \in FetchTenantArgs :
                               Evaluate(e, f, t)))
    /\ [][ \A e \in StatsCallers :
               (pc[e] = "eval" /\ pc'[e] = "idle") =>
                   /\ ret'[e].valid
                   /\ ret'[e].value =
                          evalFlags(flags, ret'[e].flag, ret'[e].tenant)
                   /\ statsCh' =
                          IF Len(statsCh) = statsCap THEN statsCh
                          ELSE Append(statsCh, [flag |-> ret'[e].flag,
                                                enabled |-> ret'[e].value]) ]_vars

\* The stats queue is full of an older event and the last call returned the
\* other value: its event was dropped, and the call returned all the same.
C21_Witness ==
    /\ ~local
    /\ Len(statsCh) = statsCap
    /\ pc[1] = "idle"
    /\ ret[1].valid
    /\ ret[1].value # statsCh[1].enabled

bucketOf(st, flag, key) ==
    IF flag \in DOMAIN st /\ key \in DOMAIN st[flag]
    THEN st[flag][key] ELSE [enabledHits |-> 0, totalHits |-> 0]

\* C23: every event the aggregator consumes adds one to totalHits of the
\* bucket of its flag and the minute, and one to enabledHits exactly when
\* its result was true, and nothing else changes in the mapping; in
\* TestStatsEnabledTotalHits the bucket of the flag therefore holds as many
\* hits as events were consumed, the enabled ones being those of the first
\* EnabledCalls calls, and what is uploaded is that single bucket.
C23_BucketCounts ==
    /\ [][ Len(statsCh') < Len(statsCh) =>
             LET ev  == Head(statsCh)
                 key == minuteOf(now)
                 old == bucketOf(stats, ev.flag, key)
             IN  /\ bucketsOf(stats') = bucketsOf(stats) \cup {<<ev.flag, key>>}
                 /\ bucketOf(stats', ev.flag, key).totalHits = old.totalHits + 1
                 /\ bucketOf(stats', ev.flag, key).enabledHits =
                        old.enabledHits + (IF ev.enabled THEN 1 ELSE 0)
                 /\ \A b \in bucketsOf(stats) \ {<<ev.flag, key>>} :
                        bucketOf(stats', b[1], b[2]) = bucketOf(stats, b[1], b[2]) ]_vars
    /\ [](\A held \in {stats, lastUpload.last} :
              /\ bucketsOf(held) \subseteq {<<"b", 0>>}
              /\ LET b == bucketOf(held, "b", 0)
                 IN  b.enabledHits =
                         IF b.totalHits < EnabledCalls THEN b.totalHits
                         ELSE EnabledCalls)
    /\ []((closePc = "idle" /\ pc[1] = "idle" /\ statsCh = <<>>
              /\ hitsDone = TestCalls) =>
             stats = ("b" :> (0 :> [enabledHits |-> EnabledCalls,
                                    totalHits |-> TestCalls])))

\* The upload of TestStatsEnabledTotalHits: one bucket of five hits, two of
\* them enabled.
C23_Witness ==
    /\ closePc = "done"
    /\ stats = NoStats
    /\ lastUpload.last = ("b" :> (0 :> [enabledHits |-> 2, totalHits |-> 5]))

\* C26: the aggregator leaves its loop only once the client context is
\* cancelled, through one last sendStats: with no bucket held nothing is
\* sent and the task exits, otherwise one upload is started, it can succeed
\* although the client context is cancelled, and when it ends the task
\* exits, with every bucket in the body and the mapping empty if it was
\* answered 200/204, and with the mapping untouched if not.  An exited task
\* sends nothing more.
C26_OneFinalFlush ==
    /\ [][ (statsPc' = "final" /\ statsPc # "final") =>
               (statsPc = "select" /\ closed /\ stats # NoStats) ]_vars
    /\ [](statsPc = "final" => (closed /\ ENABLED StatsFinalOk))
    /\ [][ (statsPc = "final" /\ statsPc' # "final") =>
               /\ statsPc' = "exited"
               /\ \/ stats' = stats /\ lastUpload' = lastUpload
                  \/ stats' = NoStats /\ lastUpload'.last = stats ]_vars
    /\ [][ (statsPc' = "exited" /\ statsPc # "exited") =>
               /\ closed
               /\ wg' = wg - 1
               /\ statsPc = "final" \/ (statsPc = "select" /\ stats = NoStats) ]_vars
    /\ [][ statsPc = "exited" =>
               (statsPc' = "exited" /\ stats' = stats /\ lastUpload' = lastUpload) ]_vars

\* TestStats: one evaluation, then Close; the last flush uploaded the one
\* bucket and Close returned.
C26_Witness ==
    /\ closePc = "done"
    /\ statsPc = "exited"
    /\ stats = NoStats
    /\ lastUpload.last = ("b" :> (0 :> [enabledHits |-> 1, totalHits |-> 1]))

\* C24: the step in which the stats endpoint accepts an upload leaves the
\* mapping empty, the body it accepted held every bucket of the mapping,
\* and none of them was in the body accepted before; no bucket of the last
\* accepted body is still held by the aggregator.
C24_ClearedAfterUpload ==
    /\ [][ lastUpload' # lastUpload =>
               /\ statsPc \in {"post", "final"}
               /\ stats # NoStats
               /\ lastUpload'.last = stats
               /\ stats' = NoStats
               /\ bucketsOf(stats) \cap bucketsOf(lastUpload.last) = {} ]_vars
    /\ [](bucketsOf(stats) \cap bucketsOf(lastUpload.last) = {})

\* The flush of the first minute was accepted, and the evaluation made
\* after it is counted in a mapping that starts from nothing.
C24_Witness ==
    /\ statsPc = "select"
    /\ lastUpload.last = ("a" :> (0 :> [enabledHits |-> 1, totalHits |-> 1]))
    /\ stats = ("b" :> (StatsInterval :> [enabledHits |-> 0, totalHits |-> 1]))

\* Age of a bucket: the time since the start of its minute.
ageOf(b) == now - b[2]

\* The first Flag call of the test returned and its event was consumed.
firstCounted == ret[1].valid /\ pc[1] = "idle" /\ statsCh = <<>>

\* C25: the step in which an upload of the flush timer fails keeps every
\* bucket less than 20 hours old with its counters, removes every bucket
\* more than 20 hours old, and adds none; an accepted upload holds every
\* bucket of the mapping.  In the scenario, as long as no upload was
\* accepted the bucket of the first evaluation is held for 20 hours, next
\* to the bucket of the evaluation made 90 seconds later, and is gone after
\* the first failed flush past 20 hours.
C25_FailedFlushRetains ==
    /\ [][ (statsPc = "post" /\ statsPc' = "select" /\ lastUpload' = lastUpload) =>
               /\ bucketsOf(stats') \subseteq bucketsOf(stats)
               /\ \A b \in bucketsOf(stats) :
                      /\ ageOf(b) < PruneAge =>
                             /\ b \in bucketsOf(stats')
                             /\ bucketOf(stats', b[1], b[2]) = bucketOf(stats, b[1], b[2])
                      /\ ageOf(b) > PruneAge => b \notin bucketsOf(stats') ]_vars
    /\ [][ lastUpload' # lastUpload => lastUpload'.last = stats ]_vars
    /\ []((firstCounted /\ lastUpload.last = NoStats /\ now <= PruneAge) =>
             bucketOf(stats, "a", 0) = [enabledHits |-> 1, totalHits |-> 1])
    /\ []((firstCounted /\ ret[1].flag = "b" /\ lastUpload.last = NoStats
              /\ now <= PruneAge) =>
             bucketOf(stats, "b", StatsInterval) = [enabledHits |-> 0, totalHits |-> 1])
    /\ []((statsQuiescent /\ now > PruneAge + StatsInterval) =>
             <<"a", 0>> \notin bucketsOf(stats))

\* The end of TestStatsMultipleFlagsMultipleMinutes: the flush of the first
\* minute failed, and the upload of Close carried the bucket it retained
\* together with the bucket of the second minute.
C25_Witness ==
    /\ now = SecondCallAt
    /\ closePc = "done"
    /\ stats = NoStats
    /\ lastUpload.last =
           ("a" :> (0 :> [enabledHits |-> 1, totalHits |-> 1])) @@
           ("b" :> (StatsInterval :> [enabledHits |-> 0, totalHits |-> 1]))

\* C27: every IsEnabled call outside local mode sends one access
\* notification and offers one stats event carrying its flag and the value
\* it returns, and it does both once that value was resolved from the
\* snapshot: the step that sends the notification is not earlier than the
\* lookup, and the lookup step offers the event.
C27_NotifiedAfterLookup ==
    /\ [][ \A e \in Evaluators :
               (pc[e] = "eval" /\ pc'[e] = "idle") =>
                   statsCh' = trackAccess(statsCh, ret'[e].flag, ret'[e].value) ]_vars
    /\ [][ \A e \in Evaluators :
               (pc[e] # "idle" /\ pc'[e] = "idle") => pc[e] = "eval" ]_vars
    /\ [][ \A e \in Evaluators :
               (pc[e] = "access" /\ pc'[e] # "access") =>
                   (accessCh' = accessCh + 1 /\ ret'[e].valid) ]_vars

\* C28: the step in which backgroundFetch takes an access notification
\* sets lastAccess to the current time and leaves the interval at 15
\* seconds with the next tick due within 15 seconds; when the interval was
\* 1 minute or 5 minutes the ticker is reset to fire 15 seconds from now.
C28_ResumeAtOnce ==
    [][ accessCh' < accessCh =>
            /\ lastAccess' = now
            /\ refreshInterval' = RefreshFast
            /\ now < nextTick'
            /\ nextTick' <= now + RefreshFast
            /\ refreshInterval \in {RefreshMid, RefreshSlow} =>
                   (nextTick' = now + RefreshFast /\ resets' = resets + 1) ]_vars

\* The evaluation made when the interval had grown to 5 minutes was taken:
\* the interval is 15 seconds again.  It had been brought back from 1
\* minute by the evaluation before, six resets of the ticker in all.
C28_Witness ==
    /\ now = 500
    /\ lastAccess = now
    /\ refreshInterval = RefreshFast
    /\ nextTick = now + RefreshFast
    /\ resets = 6

\* C29: a notification taken while the interval is 15 seconds leaves the
\* ticker alone; while the interval is 15 seconds the next tick is due
\* within 15 seconds; every tick taken leads to fetch().  In the scenario,
\* until 5 minutes after the last evaluation of the stream, the ticks are
\* those of a ticker started with the first evaluation, one request each.
C29_StreamKeepsTicks ==
    /\ [][ (accessCh' < accessCh /\ refreshInterval = RefreshFast) =>
               /\ refreshInterval' = RefreshFast
               /\ nextTick' = nextTick
               /\ resets' = resets ]_vars
    /\ [](refreshInterval = RefreshFast =>
              (now < nextTick /\ nextTick <= now + RefreshFast))
    /\ [][ (pc[Sched] = "select" /\ tickerC /\ ~tickerC') =>
               pc'[Sched] = "fetch" ]_vars
    /\ []((settled /\ lastAccess \in {0} \cup StreamTimes
              /\ now < lastAccess + AccessRecent) =>
              /\ refreshInterval = RefreshFast
              /\ resets = 1
              /\ nextTick = RefreshFast * ((now \div RefreshFast) + 1)
              /\ requests = 1 + (now \div RefreshFast))

\* Evaluations were made every 5 seconds for 45 seconds: the ticks of 15,
\* 30 and 45 seconds were served, the ticker was reset only by the first.
C29_Witness ==
    /\ settled
    /\ now = 9
    /\ lastAccess = 9
    /\ requests = 4
    /\ resets = 1
    /\ nextTick = 12

\* C30: an event is counted in the bucket of the minute its flag was
\* evaluated in, whenever the aggregator gets to it.  Every evaluation of
\* the scenario is made in the first minute, so the aggregator holds and
\* uploads buckets of that minute only.
C30_CountedInEvaluationMinute ==
    \A b \in bucketsOf(stats) \cup bucketsOf(lastUpload.last) : b[2] = 0

\* Close has returned at least once.
closeReturned == closePc \in {"done", "wait2", "done2"}

\* C31: once Close returned, both goroutines have exited, no fetch is in
\* flight and the WaitGroup counter is zero, and that stays so: a second
\* Close finds nothing to wait for and can return at once, the counter
\* never goes below zero, nothing is uploaded and nothing is fetched.
C31_SecondClose ==
    /\ [](wg >= 0)
    /\ [](closeReturned =>
              /\ wg = 0
              /\ statsPc = "exited"
              /\ pc[Sched] = "exited"
              /\ sfLeader = None)
    /\ [](closePc = "wait2" => ENABLED CloseAgainReturn)
    /\ [][ closeReturned =>
               /\ lastUpload' = lastUpload
               /\ stats' = stats
               /\ statsPc' = statsPc
               /\ sfLeader' = sfLeader
               /\ lastRefresh' = lastRefresh
               /\ flags' = flags
               /\ wg' = wg ]_vars

\* TestStats: the Close of the test body uploaded the bucket, and the
\* deferred Close returned as well.
C31_Witness ==
    /\ closePc = "done2"
    /\ statsPc = "exited"
    /\ pc[Sched] = "exited"
    /\ lastUpload.last = ("b" :> (0 :> [enabledHits |-> 1, totalHits |-> 1]))

C33_QueueDrainedAtShutdown ==
    statsPc = "exited" => statsCh = <<>>

\* Hits the stats endpoint accepted, hits held in the mapping and events
\* waiting in the queue.
accounted == lastUpload.hits + totalOf(stats) + Len(statsCh)

\* C34: with no bucket old enough to be pruned, every event is accounted
\* for once.  The sum of the hits accepted by the endpoint, the hits held
\* and the events queued grows by one with each evaluation and changes in
\* no other step: consuming an event moves it from the queue to the
\* mapping, an accepted upload moves exactly the hits held to the endpoint
\* and leaves the queue alone, a failed one moves nothing, and an event
\* queued while an upload is in flight stays queued.
C34_CountsConserved ==
    /\ [][ (pc[1] = "eval" /\ pc'[1] = "idle") => accounted' = accounted + 1 ]_vars
    /\ [][ accounted' # accounted => (pc[1] = "eval" /\ pc'[1] = "idle") ]_vars
    /\ [][ Len(statsCh') < Len(statsCh) =>
               /\ totalOf(stats') = totalOf(stats) + 1
               /\ lastUpload' = lastUpload ]_vars
    /\ [][ lastUpload' # lastUpload =>
               /\ lastUpload'.hits = lastUpload.hits + totalOf(stats)
               /\ stats' = NoStats
               /\ statsCh' = statsCh ]_vars
    /\ [][ statsPc = "post" =>
               /\ Len(statsCh') >= Len(statsCh)
               /\ totalOf(stats') \in {totalOf(stats), 0} ]_vars
    /\ []((now < StatsInterval /\ ret[1].valid /\ pc[1] = "idle") => accounted = 1)
    /\ [](accounted <= 2)

\* The first hit was uploaded by the flush of the first minute while the
\* event of the second evaluation was queued or on its way; that event was
\* counted afterwards, in a mapping of its own.
C34_Witness ==
    /\ lastUpload.hits = 1
    /\ lastUpload.last = ("a" :> (0 :> [enabledHits |-> 1, totalHits |-> 1]))
    /\ stats = ("a" :> (StatsInterval :> [enabledHits |-> 1, totalHits |-> 1]))
    /\ statsCh = <<>>
    /\ pc[1] = "idle"

\* C35: every flag of the mapping has a bucket, every bucket has counted an
\* event, and its enabled hits are between zero and its total.  A flush
\* that finds the mapping empty starts no upload: the tick of the flush
\* timer leaves the aggregator in its loop, the last flush lets it exit at
\* once, and the endpoint never accepts an empty body.
C35_MappingWellFormed ==
    /\ [](\A f \in DOMAIN stats :
              /\ DOMAIN stats[f] # {}
              /\ \A k \in DOMAIN stats[f] :
                     /\ stats[f][k].totalHits >= 1
                     /\ stats[f][k].enabledHits >= 0
                     /\ stats[f][k].enabledHits <= stats[f][k].totalHits)
    /\ [](statsPc \in {"post", "final"} => stats # NoStats)
    /\ [][ (statsPc = "select" /\ stats = NoStats) =>
               /\ statsPc' \in {"select", "exited"}
               /\ lastUpload' = lastUpload ]_vars
    /\ [][ lastUpload' # lastUpload => bucketsOf(lastUpload'.last) # {} ]_vars

\* The outage lasted beyond 20 hours: the cleanup removed the only bucket
\* and the flag with it, and the tick of the flush timer that followed was
\* taken on an empty mapping, without an upload.
C35_Witness ==
    /\ now > PruneAge + StatsInterval
    /\ ret[1].valid
    /\ statsQuiescent
    /\ stats = NoStats
    /\ lastUpload.last = NoStats
    /\ statsPc = "select"
    /\ statsNextTick = now + StatsInterval

====
